---- MODULE Spec2Model ----
(***************************************************************************)
(* StreamPipe (src/pipe.py): an HTTP server that relays a streamlink       *)
(* byte stream to a client as a chunked video/MP2T response.               *)
(*                                                                         *)
(* One request handler (StreamHandler) is modelled per connection.  A      *)
(* handler is a sequence of steps separated at its blocking points (the    *)
(* backend's streams(), open(), read(), close() and the client writes).    *)
(* Each handler keeps the list of the externally visible operations it     *)
(* performed in `log`.                                                     *)
(***************************************************************************)
EXTENDS Integers, Sequences, FiniteSets, TLC

VARIABLES
    streams_config,      \* StreamHandler.streams_config (routing table)
    streamlink_options,  \* StreamHandler.streamlink_options (global options)
    pc,                  \* position of each handler
    path,                \* self.path of each handler's request
    stream_name,         \* argument of serve_stream
    url,                 \* local `url` of serve_stream
    session_opts,        \* options set on the Streamlink session
    buffer_size,         \* local `buffer_size` of serve_stream
    stream_fd,           \* "none", "open" or "closed"
    data,                \* length of the bytes held in `data`
    upos,                \* upstream bytes consumed so far by read()
    nreads,              \* number of non-empty reads so far
    exc,                 \* exception in flight ("none" when there is none)
    escaped,             \* an exception left the handler
    log                  \* operations performed, oldest first

vars == <<streams_config, streamlink_options, pc, path, stream_name, url,
          session_opts, buffer_size, stream_fd, data, upos, nreads, exc,
          escaped, log>>

cfgvars == <<streams_config, streamlink_options>>

----------------------------------------------------------------------------
(* Bounds *)

\* non-empty reads the upstream delivers to one handler at most
MaxReads == 2

\* the handlers (one per accepted connection)
Handlers == {1, 2}

----------------------------------------------------------------------------
(* Characters and names.  A character is a one-element token; E9 and B5    *)
(* stand for U+00E9 and U+00B5 (lowercase, not ASCII), B2 for U+00B2 (a    *)
(* digit, not ASCII): a request line is decoded as ISO-8859-1.             *)

AsciiLower == {"a", "b", "e", "f", "h", "l", "o", "r", "t", "u", "x", "z"}
AsciiDigit == {"0", "1"}
Hyphen == "-"
NonAsciiLower == {"E9", "B5"}
NonAsciiDigit == {"B2"}
OtherChars == {"F", "/", ".", "?", "%", "_"}

\* str.islower() of a one-character string
islower(c) == c \in AsciiLower \cup NonAsciiLower

\* str.isdigit() of a one-character string
isdigit(c) == c \in AsciiDigit \cup NonAsciiDigit

\* the characters of [a-z0-9-]
InAllowedSet(c) == c \in AsciiLower \cup AsciiDigit \cup {Hyphen}

\* the name matches [a-z0-9-]+
MatchesSyntax(n) == Len(n) > 0 /\ \A i \in 1..Len(n) : InAllowedSet(n[i])

RECURSIVE lstrip(_)
lstrip(p) == IF p # <<>> /\ Head(p) = "/" THEN lstrip(Tail(p)) ELSE p

RECURSIVE rstrip(_)
rstrip(p) ==
    IF p # <<>> /\ p[Len(p)] = "/" THEN rstrip(SubSeq(p, 1, Len(p) - 1)) ELSE p

\* str.strip("/")
strip(p) == rstrip(lstrip(p))

health == <<"h", "e", "a", "l", "t", "h">>
foo == <<"f", "o", "o">>
bar == <<"b", "a", "r">>
nourl == <<"u", "r", "l", "0">>
nokey == <<"u", "r", "l", "1">>
cafe == <<"f", "E9">>

\* request paths
Paths == {
    <<"/">>, <<"/", "/">>, <<"/">> \o health, <<"/">> \o health \o <<"/">>,
    <<"/">> \o foo, <<"/">> \o foo \o <<"/">>, <<"/">> \o bar,
    <<"/">> \o nourl, <<"/">> \o nokey,
    <<"/", "z", "-", "1">>, <<"/", "-">>,
    <<"/", "F", "o", "o">>, <<"/">> \o foo \o <<"/">> \o bar,
    <<"/">> \o foo \o <<"?", "x">>, <<"/", ".", ".">>, <<"/", "f", "_">>,
    <<"/">> \o cafe, <<"/", "B5">>, <<"/", "f", "B2">>, <<"/", "%", "e", "0">> }

----------------------------------------------------------------------------
(* Configuration: what run_server stores in the class attributes.          *)

None == "<None>"

\* a route descriptor that is a plain string
StrRoute(u) == [isdict |-> FALSE, str |-> u, dict |-> <<>>]

\* a route descriptor that is a mapping
DictRoute(d) == [isdict |-> TRUE, str |-> "", dict |-> d]

\* dict.get(key, default)
Get(d, key, default) == IF key \in DOMAIN d THEN d[key] ELSE default

ConfigIds == {1, 2, 3}

StreamsOf(c) ==
    CASE c = 1 ->
           (foo :> StrRoute("http://x/y.m3u8"))
        @@ (bar :> DictRoute([url |-> "http://b/live", user_agent |-> "RouteUA",
                              threads |-> 2, timeout |-> 5,
                              buffer_size |-> 188]))
        @@ (nourl :> StrRoute(""))
        @@ (nokey :> DictRoute([threads |-> 1]))
      [] c = 2 ->
           (health :> StrRoute("http://h/live"))
        @@ (cafe :> StrRoute("http://e/live"))
        @@ (bar :> DictRoute([url |-> "http://b/live", buffer_size |-> 376]))
      [] OTHER -> <<>>

OptionsOf(c) ==
    CASE c = 1 -> [user_agent |-> "GlobalUA", threads |-> 8, timeout |-> 30,
                   buffer_size |-> 400]
      [] c = 2 -> <<>>
      [] OTHER -> [threads |-> 1]

----------------------------------------------------------------------------
(* Exceptions *)

\* the three errors of the inner except clause
DisconnectErrors ==
    {"BrokenPipeError", "ConnectionResetError", "ConnectionAbortedError"}

\* what the backend (streamlink) raises; "Exception" is any other exception
BackendErrors == {"NoPluginError", "NoStreamsError", "StreamError", "Exception"}

\* what a write to the client raises
WriteErrors == DisconnectErrors \cup {"Exception"}

\* what a read of the upstream handle raises
ReadErrors == BackendErrors \cup {"ConnectionResetError"}

\* the units of one chunk: size line, data, CRLF, flush
WriteStages == {"size", "data", "crlf", "flush"}

\* variant: the inner except clause names BrokenPipeError only
InnerCaught_OnlyBrokenPipe(kind) == kind = "BrokenPipeError"

\* except (BrokenPipeError, ConnectionResetError, ConnectionAbortedError)
InnerCaught(kind) == kind \in DisconnectErrors

\* variant: the statuses of NoPluginError and NoStreamsError exchanged
ErrorStatus_Swapped(kind) ==
    CASE kind = "NoPluginError" -> 503
      [] kind = "NoStreamsError" -> 502
      [] kind = "StreamError" -> 500
      [] OTHER -> 500

\* the status of the outer except clauses
ErrorStatus(kind) ==
    CASE kind = "NoPluginError" -> 502
      [] kind = "NoStreamsError" -> 503
      [] kind = "StreamError" -> 500
      [] OTHER -> 500

\* the message of the outer except clauses
ErrorMessage(kind) ==
    CASE kind = "NoPluginError" -> "No plugin found for this stream URL"
      [] kind = "NoStreamsError" -> "No streams available from source"
      [] kind = "StreamError" -> "Stream error"
      [] OTHER -> "Server error"

----------------------------------------------------------------------------
(* Pure parts of the pump loop *)

ts_packet_size == 188

DefaultBufferSize == 8388608
DefaultThreads == 4
DefaultTimeout == 20
RingBufferSize == 33554432

\* lengths a read may return (those not above the read size)
ReadLens == {1, 100, 187, 188, 189, 200, 376, 400, 8388608}

\* variant: the trim without the test len(data) > ts_packet_size
Trim_NoGuard(L) == L - (L % ts_packet_size)

\* lines 106-108: the length of `data` after the trim
Trim(L) ==
    LET remainder == L % ts_packet_size
    IN  IF remainder # 0 /\ L > ts_packet_size THEN L - remainder ELSE L

HexDigit(d) ==
    CASE d = 0 -> "0" [] d = 1 -> "1" [] d = 2 -> "2" [] d = 3 -> "3"
      [] d = 4 -> "4" [] d = 5 -> "5" [] d = 6 -> "6" [] d = 7 -> "7"
      [] d = 8 -> "8" [] d = 9 -> "9" [] d = 10 -> "a" [] d = 11 -> "b"
      [] d = 12 -> "c" [] d = 13 -> "d" [] d = 14 -> "e" [] OTHER -> "f"

RECURSIVE Hex_Decimal(_)
\* variant: f"{n}", the digits of n in base 10
Hex_Decimal(n) ==
    IF n < 10 THEN <<HexDigit(n)>>
    ELSE Hex_Decimal(n \div 10) \o <<HexDigit(n % 10)>>

RECURSIVE Hex(_)
\* f"{n:x}": the digits of n in base 16, most significant first
Hex(n) == IF n < 16 THEN <<HexDigit(n)>> ELSE Hex(n \div 16) \o <<HexDigit(n % 16)>>

----------------------------------------------------------------------------
(* The log *)

\* op: the operation; arg: its number (status, length, count); off: the
\* upstream offset of the bytes; txt: message, outcome or exception; chars: a
\* stream name, the characters of a size line, or the write that failed
Ev(op, arg, off, txt, chars) ==
    [op |-> op, arg |-> arg, off |-> off, txt |-> txt, chars |-> chars]

E(op, arg) == Ev(op, arg, 0, "", <<>>)

\* BaseHTTPRequestHandler.send_error(code, message): a status line and an
\* error body
SendError(code, msg, name) ==
    <<Ev("status", code, 0, msg, name), E("error_body", code)>>

Append2(s, evs) == [log EXCEPT ![s] = @ \o evs]

----------------------------------------------------------------------------
(* Initial state: run_server has stored the configuration; no request yet. *)

NoOpts == [user_agent |-> "", timeout |-> 0, threads |-> 0, ringbuffer |-> 0]

Init ==
    /\ \E c \in ConfigIds :
          /\ streams_config = StreamsOf(c)
          /\ streamlink_options = OptionsOf(c)
    /\ pc = [s \in Handlers |-> "idle"]
    /\ path = [s \in Handlers |-> <<>>]
    /\ stream_name = [s \in Handlers |-> <<>>]
    /\ url = [s \in Handlers |-> None]
    /\ session_opts = [s \in Handlers |-> NoOpts]
    /\ buffer_size = [s \in Handlers |-> 0]
    /\ stream_fd = [s \in Handlers |-> "none"]
    /\ data = [s \in Handlers |-> 0]
    /\ upos = [s \in Handlers |-> 0]
    /\ nreads = [s \in Handlers |-> 0]
    /\ exc = [s \in Handlers |-> "none"]
    /\ escaped = [s \in Handlers |-> FALSE]
    /\ log = [s \in Handlers |-> <<>>]

----------------------------------------------------------------------------
(* Routing *)

\* variant: only the empty path goes to the health check
do_GET_NoHealthToken(s, p) ==
    /\ pc[s] = "idle"
    /\ path' = [path EXCEPT ![s] = p]
    /\ LET name == strip(p)
       IN  IF name = <<>>
           THEN /\ pc' = [pc EXCEPT ![s] = "serve_health_check"]
                /\ UNCHANGED stream_name
           ELSE /\ pc' = [pc EXCEPT ![s] = "serve_stream"]
                /\ stream_name' = [stream_name EXCEPT ![s] = name]
    /\ UNCHANGED <<cfgvars, url, session_opts, buffer_size, stream_fd, data,
                   upos, nreads, exc, escaped, log>>

\* do_GET, lines 31-37
do_GET(s, p) ==
    /\ pc[s] = "idle"
    /\ path' = [path EXCEPT ![s] = p]
    /\ LET name == strip(p)
       IN  IF name = <<>> \/ name = health
           THEN /\ pc' = [pc EXCEPT ![s] = "serve_health_check"]
                /\ UNCHANGED stream_name
           ELSE /\ pc' = [pc EXCEPT ![s] = "serve_stream"]
                /\ stream_name' = [stream_name EXCEPT ![s] = name]
    /\ UNCHANGED <<cfgvars, url, session_opts, buffer_size, stream_fd, data,
                   upos, nreads, exc, escaped, log>>

\* serve_health_check, lines 39-47
serve_health_check(s, ok) ==
    /\ pc[s] = "serve_health_check"
    /\ log' = Append2(s, <<E("status", 200), E("end_headers", 0),
                           E("health_body", Cardinality(DOMAIN streams_config))>>)
    /\ escaped' = [escaped EXCEPT ![s] = ~ok]
    /\ pc' = [pc EXCEPT ![s] = "done"]
    /\ UNCHANGED <<cfgvars, path, stream_name, url, session_opts, buffer_size,
                   stream_fd, data, upos, nreads, exc>>

\* line 50: all(c.islower() or c.isdigit() or c == "-" for c in stream_name)
NameAccepted(n) ==
    \A i \in 1..Len(n) : islower(n[i]) \/ isdigit(n[i]) \/ n[i] = Hyphen

\* lines 58-62: the URL of a route descriptor
RouteUrl(stream_config) ==
    IF stream_config.isdict
    THEN Get(stream_config.dict, "url", None)
    ELSE stream_config.str

\* variant: `url is None` in place of `not url`
Falsy_NoneOnly(u) == u = None

\* `not url`
Falsy(u) == u = None \/ u = ""

\* variant: no membership test; a name that is not a key is used as the URL
RouteDecision_UnknownPassed(n) ==
    IF ~NameAccepted(n)
    THEN [kind |-> "bad_name", url |-> None, ops |-> <<>>]
    ELSE IF n \notin DOMAIN streams_config
    THEN [kind |-> "ok", url |-> "name", ops |-> <<E("table_get", 0)>>]
    ELSE LET u == RouteUrl(streams_config[n])
         IN  [kind |-> IF Falsy(u) THEN "no_url" ELSE "ok", url |-> u,
              ops |-> <<E("table_in", 1), E("table_get", 0)>>]

\* serve_stream, lines 50-66: what the name check, the table lookup and the
\* URL of the route decide.  ops are the accesses to the routing table.
RouteDecision(n) ==
    IF ~NameAccepted(n)
    THEN [kind |-> "bad_name", url |-> None, ops |-> <<>>]
    ELSE IF n \notin DOMAIN streams_config
    THEN [kind |-> "unknown", url |-> None, ops |-> <<E("table_in", 0)>>]
    ELSE LET u == RouteUrl(streams_config[n])
         IN  [kind |-> IF Falsy(u) THEN "no_url" ELSE "ok", url |-> u,
              ops |-> <<E("table_in", 1), E("table_get", 0)>>]

\* serve_stream, lines 50-66: reject the request or go on to the session
serve_stream_route(s, ok) ==
    /\ pc[s] = "serve_stream"
    /\ LET n == stream_name[s]
           d == RouteDecision(n)
       IN  /\ url' = [url EXCEPT ![s] = d.url]
           /\ IF d.kind = "ok"
              THEN /\ ok
                   /\ log' = Append2(s, d.ops)
                   /\ pc' = [pc EXCEPT ![s] = "new_session"]
                   /\ UNCHANGED escaped
              ELSE /\ log' = Append2(s, d.ops \o
                        (IF d.kind = "no_url"
                         THEN SendError(500, "No URL configured for stream", n)
                         ELSE SendError(404, "Not Found", <<>>)))
                   /\ escaped' = [escaped EXCEPT ![s] = ~ok]
                   /\ pc' = [pc EXCEPT ![s] = "done"]
    /\ UNCHANGED <<cfgvars, path, stream_name, session_opts, buffer_size,
                   stream_fd, data, upos, nreads, exc>>

\* serve_stream, lines 68-77: the session and its options
new_session(s) ==
    /\ pc[s] = "new_session"
    /\ session_opts' = [session_opts EXCEPT ![s] =
          [user_agent |-> Get(streamlink_options, "user_agent", "StreamPipe/1.0"),
           timeout |-> Get(streamlink_options, "timeout", DefaultTimeout),
           threads |-> Get(streamlink_options, "threads", DefaultThreads),
           ringbuffer |-> RingBufferSize]]
    /\ log' = Append2(s, <<E("Streamlink", 0)>>)
    /\ pc' = [pc EXCEPT ![s] = "streams"]
    /\ UNCHANGED <<cfgvars, path, stream_name, url, buffer_size, stream_fd,
                   data, upos, nreads, exc, escaped>>

----------------------------------------------------------------------------
(* Session setup *)

\* what session.streams(url) gives: variants with or without "best", no
\* variant, or an exception
StreamsOutcomes == {"best", "nobest", "empty"} \cup BackendErrors

\* serve_stream, lines 80-86: enumerate the variants and select one
session_streams(s, outcome, ok) ==
    /\ pc[s] = "streams"
    /\ IF outcome \in BackendErrors
       THEN /\ log' = Append2(s, <<Ev("streams", 0, 0, outcome, <<>>)>>)
            /\ exc' = [exc EXCEPT ![s] = outcome]
            /\ pc' = [pc EXCEPT ![s] = "except_outer"]
            /\ ok
            /\ UNCHANGED escaped
       ELSE IF outcome = "empty"
       THEN /\ log' = Append2(s, <<Ev("streams", 0, 0, outcome, <<>>)>>
                                  \o SendError(404, "No streams available", <<>>))
            /\ escaped' = [escaped EXCEPT ![s] = ~ok]
            /\ pc' = [pc EXCEPT ![s] = "done"]
            /\ UNCHANGED exc
       ELSE /\ log' = Append2(s, <<Ev("streams", 1, 0, outcome, <<>>)>>)
            /\ pc' = [pc EXCEPT ![s] = "send_headers"]
            /\ ok
            /\ UNCHANGED <<exc, escaped>>
    /\ UNCHANGED <<cfgvars, path, stream_name, url, session_opts, buffer_size,
                   stream_fd, data, upos, nreads>>

\* serve_stream, lines 88-92: status 200 and the headers of the stream
send_headers(s, outcome) ==
    /\ pc[s] = "send_headers"
    /\ IF outcome = "ok"
       THEN /\ log' = Append2(s, <<E("status", 200),
                                   Ev("end_headers", 0, 0, "video/MP2T", <<>>)>>)
            /\ pc' = [pc EXCEPT ![s] = "open"]
            /\ UNCHANGED exc
       ELSE /\ log' = Append2(s, <<E("status", 200),
                                   Ev("write_fail", 0, 0, outcome, <<"headers">>)>>)
            /\ exc' = [exc EXCEPT ![s] = outcome]
            /\ pc' = [pc EXCEPT ![s] = "except_outer"]
    /\ UNCHANGED <<cfgvars, path, stream_name, url, session_opts, buffer_size,
                   stream_fd, data, upos, nreads, escaped>>

\* serve_stream, lines 94-95: the read size, then stream.open()
stream_open(s, outcome) ==
    /\ pc[s] = "open"
    /\ buffer_size' = [buffer_size EXCEPT ![s] =
                          Get(streamlink_options, "buffer_size", DefaultBufferSize)]
    /\ log' = Append2(s, <<Ev("open", 0, 0, outcome, <<>>)>>)
    /\ IF outcome = "ok"
       THEN /\ stream_fd' = [stream_fd EXCEPT ![s] = "open"]
            /\ pc' = [pc EXCEPT ![s] = "read"]
            /\ UNCHANGED exc
       ELSE /\ exc' = [exc EXCEPT ![s] = outcome]
            /\ pc' = [pc EXCEPT ![s] = "except_outer"]
            /\ UNCHANGED stream_fd
    /\ UNCHANGED <<cfgvars, path, stream_name, url, session_opts, data, upos,
                   nreads, escaped>>

----------------------------------------------------------------------------
(* Pump loop *)

\* variant: an exception inside the loop is swallowed and the loop goes on
\* with the next read
RaiseInner_Retry(s, kind, evs) ==
    /\ log' = Append2(s, evs)
    /\ exc' = [exc EXCEPT ![s] = "none"]
    /\ pc' = [pc EXCEPT ![s] = "read"]

\* variant: the terminal chunk written in the finally, so also after a
\* failure
RaiseInner_TerminalAlways(s, kind, evs) ==
    /\ log' = Append2(s, evs \o <<Ev("chunk", 0, upos[s], "", <<"0">>)>>)
    /\ exc' = [exc EXCEPT ![s] = IF InnerCaught(kind) THEN "none" ELSE kind]
    /\ pc' = [pc EXCEPT ![s] = "close"]

\* variant: close() at the end of the try body and of the except clause
\* instead of in a finally, so that an exception that is not caught skips it
RaiseInner_NoFinally(s, kind, evs) ==
    IF InnerCaught(kind)
    THEN /\ log' = Append2(s, evs \o <<E("print_disconnected", 0)>>)
         /\ exc' = [exc EXCEPT ![s] = "none"]
         /\ pc' = [pc EXCEPT ![s] = "close"]
    ELSE /\ log' = Append2(s, evs)
         /\ exc' = [exc EXCEPT ![s] = kind]
         /\ pc' = [pc EXCEPT ![s] = "except_outer"]

\* an exception raised inside the inner try (lines 98-117): the inner
\* except clause (lines 119-122) takes it or lets it through to the finally
RaiseInner(s, kind, evs) ==
    IF InnerCaught(kind)
    THEN /\ log' = Append2(s, evs \o <<E("print_disconnected", 0)>>)
         /\ exc' = [exc EXCEPT ![s] = "none"]
         /\ pc' = [pc EXCEPT ![s] = "close"]
    ELSE /\ log' = Append2(s, evs)
         /\ exc' = [exc EXCEPT ![s] = kind]
         /\ pc' = [pc EXCEPT ![s] = "close"]

\* variant: the next read is issued while the chunk of the previous one is
\* still to be written
fd_read_Ahead(s, r, err) ==
    /\ pc[s] \in {"read", "write"}
    /\ IF err # "none"
       THEN /\ r = 0
            /\ RaiseInner(s, err, <<Ev("read", -1, upos[s], err, <<>>)>>)
            /\ UNCHANGED <<data, upos, nreads>>
       ELSE /\ r \in {0} \cup {L \in ReadLens : L <= buffer_size[s]}
            /\ r > 0 => nreads[s] < MaxReads
            /\ log' = Append2(s, <<Ev("read", r, upos[s], "", <<>>)>>)
            /\ data' = [data EXCEPT ![s] = r]
            /\ upos' = [upos EXCEPT ![s] = @ + r]
            /\ nreads' = [nreads EXCEPT ![s] = IF r > 0 THEN @ + 1 ELSE @]
            /\ pc' = [pc EXCEPT ![s] = IF r = 0 THEN "terminal" ELSE "write"]
            /\ UNCHANGED exc
    /\ UNCHANGED <<cfgvars, path, stream_name, url, session_opts, buffer_size,
                   stream_fd, escaped>>

\* serve_stream, lines 99-101: one read of the upstream handle.  r is the
\* number of bytes returned; err is the exception raised, or "none".
fd_read(s, r, err) ==
    /\ pc[s] = "read"
    /\ IF err # "none"
       THEN /\ r = 0
            /\ RaiseInner(s, err, <<Ev("read", -1, upos[s], err, <<>>)>>)
            /\ UNCHANGED <<data, upos, nreads>>
       ELSE /\ r \in {0} \cup {L \in ReadLens : L <= buffer_size[s]}
            /\ r > 0 => nreads[s] < MaxReads
            /\ log' = Append2(s, <<Ev("read", r, upos[s], "", <<>>)>>)
            /\ data' = [data EXCEPT ![s] = r]
            /\ upos' = [upos EXCEPT ![s] = @ + r]
            /\ nreads' = [nreads EXCEPT ![s] = IF r > 0 THEN @ + 1 ELSE @]
            /\ pc' = [pc EXCEPT ![s] = IF r = 0 THEN "terminal" ELSE "write"]
            /\ UNCHANGED exc
    /\ UNCHANGED <<cfgvars, path, stream_name, url, session_opts, buffer_size,
                   stream_fd, escaped>>

\* serve_stream, lines 103-115: trim `data` and write it as one chunk.
\* outcome is "ok", or <<stage, error>> for the write that fails.
write_chunk(s, outcome) ==
    /\ pc[s] = "write"
    /\ LET W == Trim(data[s])
       IN  /\ data' = [data EXCEPT ![s] = W]
           /\ IF W = 0
              THEN /\ outcome = "ok"
                   /\ pc' = [pc EXCEPT ![s] = "read"]
                   /\ UNCHANGED <<log, exc>>
              ELSE IF outcome = "ok"
              THEN /\ log' = Append2(s,
                        <<Ev("chunk", W, upos[s] - data[s], "", Hex(W))>>)
                   /\ pc' = [pc EXCEPT ![s] = "read"]
                   /\ UNCHANGED exc
              ELSE RaiseInner(s, outcome[2],
                        <<Ev("write_fail", W, upos[s] - data[s], outcome[2], <<outcome[1]>>)>>)
    /\ UNCHANGED <<cfgvars, path, stream_name, url, session_opts, buffer_size,
                   stream_fd, upos, nreads, escaped>>

\* serve_stream, line 117: the terminal chunk
write_terminal(s, outcome) ==
    /\ pc[s] = "terminal"
    /\ IF outcome = "ok"
       THEN /\ log' = Append2(s, <<Ev("chunk", 0, upos[s], "", <<"0">>)>>)
            /\ pc' = [pc EXCEPT ![s] = "close"]
            /\ UNCHANGED exc
       ELSE RaiseInner(s, outcome,
                <<Ev("write_fail", 0, upos[s], outcome, <<"terminal">>)>>)
    /\ UNCHANGED <<cfgvars, path, stream_name, url, session_opts, buffer_size,
                   stream_fd, data, upos, nreads, escaped>>

\* serve_stream, lines 123-124: finally: stream_fd.close()
fd_close(s) ==
    /\ pc[s] = "close"
    /\ stream_fd' = [stream_fd EXCEPT ![s] = "closed"]
    /\ log' = Append2(s, <<E("close", 0)>>)
    /\ pc' = [pc EXCEPT ![s] = IF exc[s] = "none" THEN "done" ELSE "except_outer"]
    /\ UNCHANGED <<cfgvars, path, stream_name, url, session_opts, buffer_size,
                   data, upos, nreads, exc, escaped>>

\* serve_stream, lines 126-133: the outer except clauses
handle_error(s, ok) ==
    /\ pc[s] = "except_outer"
    /\ log' = Append2(s, SendError(ErrorStatus(exc[s]), ErrorMessage(exc[s]), <<>>))
    /\ exc' = [exc EXCEPT ![s] = "none"]
    /\ escaped' = [escaped EXCEPT ![s] = ~ok]
    /\ pc' = [pc EXCEPT ![s] = "done"]
    /\ UNCHANGED <<cfgvars, path, stream_name, url, session_opts, buffer_size,
                   stream_fd, data, upos, nreads>>

----------------------------------------------------------------------------
(* One connection *)

WriteFailures == WriteStages \X WriteErrors

Step(s) ==
    \/ \E p \in Paths : do_GET(s, p)
    \/ \E ok \in BOOLEAN : serve_health_check(s, ok)
    \/ \E ok \in BOOLEAN : serve_stream_route(s, ok)
    \/ new_session(s)
    \/ \E o \in StreamsOutcomes, ok \in BOOLEAN : session_streams(s, o, ok)
    \/ \E o \in {"ok"} \cup WriteErrors : send_headers(s, o)
    \/ \E o \in {"ok"} \cup BackendErrors : stream_open(s, o)
    \/ \E r \in {0} \cup ReadLens : fd_read(s, r, "none")
    \/ \E e \in ReadErrors : fd_read(s, 0, e)
    \/ write_chunk(s, "ok")
    \/ \E f \in WriteFailures : write_chunk(s, f)
    \/ \E o \in {"ok"} \cup WriteErrors : write_terminal(s, o)
    \/ fd_close(s)
    \/ \E ok \in BOOLEAN : handle_error(s, ok)

Next == Step(1)

Spec == Init /\ [][Next]_vars

\* the handler thread is scheduled: a call that can return does return
SpecFair == Spec /\ WF_vars(Next)

----------------------------------------------------------------------------
(* Several connections, and the end of the process *)

\* variant: HTTPServer without ThreadingMixIn: a request is taken up only
\* when no other request is being handled
CanAccept_Serial(s) == \A t \in Handlers \ {s} : pc[t] \in {"idle", "done"}

\* ThreadedHTTPServer, lines 19-21: ThreadingMixIn hands every request to a
\* thread of its own, whatever the other handlers do
CanAccept(s) == TRUE

\* the requests of the connections that run side by side
ConcPaths == {<<"/">> \o foo, <<"/">> \o bar, <<"/">> \o health}

\* the read lengths of the connections that run side by side
ConcLens == {0, 188, 200}

\* one step of handler s, a thread of ThreadedHTTPServer
ConcStep(s) ==
    \/ \E p \in ConcPaths : CanAccept(s) /\ do_GET(s, p)
    \/ serve_health_check(s, TRUE)
    \/ serve_stream_route(s, TRUE)
    \/ new_session(s)
    \/ \E o \in {"best", "NoPluginError"} : session_streams(s, o, TRUE)
    \/ send_headers(s, "ok")
    \/ \E o \in {"ok", "StreamError"} : stream_open(s, o)
    \/ \E r \in ConcLens : fd_read(s, r, "none")
    \/ fd_read(s, 0, "StreamError")
    \/ write_chunk(s, "ok")
    \/ write_chunk(s, <<"data", "BrokenPipeError">>)
    \/ \E o \in {"ok", "ConnectionResetError"} : write_terminal(s, o)
    \/ fd_close(s)
    \/ handle_error(s, TRUE)

\* main, lines 206-211, and daemon_threads, line 20: SIGINT or SIGTERM runs
\* signal_handler, sys.exit(0) ends the main thread and with it the process;
\* the handler threads are daemon threads and stop wherever they are
Signal ==
    /\ \A s \in Handlers : pc[s] # "killed"
    /\ \E s \in Handlers : pc[s] # "done"
    /\ pc' = [s \in Handlers |-> IF pc[s] = "done" THEN "done" ELSE "killed"]
    /\ UNCHANGED <<cfgvars, path, stream_name, url, session_opts, buffer_size,
                   stream_fd, data, upos, nreads, exc, escaped, log>>

\* the first configuration: the routes foo and bar
InitConc == Init /\ streams_config = StreamsOf(1)

NextConc == ConcStep(1) \/ ConcStep(2)

\* two connections; the thread of handler 2 is scheduled fairly, the one of
\* handler 1 may stay blocked in any of its calls for ever
SpecConc == InitConc /\ [][NextConc]_vars /\ WF_vars(ConcStep(2))

NextShutdown == ConcStep(1) \/ ConcStep(2) \/ Signal

\* two connections and the signal
SpecShutdown == InitConc /\ [][NextShutdown]_vars

----------------------------------------------------------------------------
(* Reading the log *)

Idx(s) == 1..Len(log[s])

\* the positions of the operations op in the log of handler s
Ops(s, op) == {i \in Idx(s) : log[s][i].op = op}

IsStatus(e) == e.op = "status"

\* the status lines of the response of handler s, in order
Statuses(s) ==
    LET st == SelectSeq(log[s], IsStatus)
    IN  [i \in 1..Len(st) |-> st[i].arg]

\* the candidate name of the request of handler s
Name(s) == strip(path[s])

BackendOps == {"Streamlink", "streams", "open", "read", "close"}

BackendInvoked(s) == \E i \in Idx(s) : log[s][i].op \in BackendOps

TableConsulted(s) == \E i \in Idx(s) : log[s][i].op \in {"table_in", "table_get"}

\* stream.open() returned a handle
Opened(s) == \E i \in Ops(s, "open") : log[s][i].txt = "ok"

\* the 200 status and the headers of the stream response have been sent
Committed(s, i) == log[s][i].op = "end_headers" /\ log[s][i].txt = "video/MP2T"

\* a data chunk (not the terminal chunk)
DataChunk(s, i) == log[s][i].op = "chunk" /\ log[s][i].arg > 0

\* a write of the pump loop failed because the client disconnected
ClientGone(s, i) ==
    /\ log[s][i].op = "write_fail"
    /\ log[s][i].chars # <<"headers">>
    /\ log[s][i].txt \in DisconnectErrors

----------------------------------------------------------------------------
(* Claims *)

\* C1: when open() returned a handle, close() is called on it exactly once
\* however the pump loop ends (empty read, client disconnect, a read that
\* raises, any other exception), never more than once, and no read follows
\* the close.
C1_ClosedExactlyOnce ==
    \A s \in Handlers :
        /\ Cardinality(Ops(s, "close")) <= 1
        /\ Ops(s, "close") # {} => Opened(s)
        /\ (Opened(s) /\ pc[s] \in {"except_outer", "done"}) =>
              /\ Cardinality(Ops(s, "close")) = 1
              /\ stream_fd[s] = "closed"
        /\ \A i \in Ops(s, "close") : \A j \in Ops(s, "read") : j < i

\* C1 witness: a loop ended by a read that raised a stream error, handle
\* closed once, handler finished
C1_Witness ==
    /\ pc[1] = "done"
    /\ Opened(1)
    /\ \E i \in Ops(1, "read") : log[1][i].txt = "StreamError"
    /\ Cardinality(Ops(1, "close")) = 1

\* C2 (as stated): a data chunk whose length is not a multiple of 188 is
\* never followed by another data chunk, and every data chunk is non-empty.
C2_Orig_AlignedUnlessLast ==
    \A s \in Handlers : \A i \in Idx(s) :
        (DataChunk(s, i) /\ log[s][i].arg % ts_packet_size # 0) =>
            \A j \in Idx(s) : j > i => ~DataChunk(s, j)

C4_Orig_StatusAfterOpen ==
    \A s \in Handlers : \A j \in Ops(s, "open") :
        IF log[s][j].txt = "ok"
        THEN \A i \in Idx(s) : Committed(s, i) => j < i
        ELSE /\ \A i \in Idx(s) : ~Committed(s, i)
             /\ \A i \in Ops(s, "status") : log[s][i].arg # 200
             /\ pc[s] = "done" => Statuses(s) = <<500>>

\* C5 (as stated): after the 200 status and the headers of a stream response
\* have been sent, no other status line and no error body is written: the
\* response has one status line.
C5_Orig_OneStatusLine ==
    \A s \in Handlers : \A i \in Idx(s) :
        Committed(s, i) =>
            /\ \A j \in Idx(s) :
                  j > i => log[s][j].op \notin {"status", "error_body"}
            /\ Len(Statuses(s)) = 1

\* C6: after a write of the pump loop failed because the client
\* disconnected, the handler reads nothing more from the upstream, writes
\* nothing more to the client, closes the handle and returns without an
\* exception.
C6_DisconnectEndsQuietly ==
    \A s \in Handlers : \A i \in Idx(s) :
        ClientGone(s, i) =>
            /\ \A j \in Idx(s) :
                  j > i => log[s][j].op \in {"print_disconnected", "close"}
            /\ pc[s] \in {"close", "done"}
            /\ exc[s] = "none"
            /\ ~escaped[s]
            /\ pc[s] = "done" =>
                  Cardinality(Ops(s, "close")) = 1 /\ stream_fd[s] = "closed"

\* C6 witness: the data of a chunk met a reset connection; the handler is
\* finished
C6_Witness ==
    /\ pc[1] = "done"
    /\ \E i \in Idx(1) :
          /\ ClientGone(1, i)
          /\ log[1][i].txt = "ConnectionResetError"
          /\ log[1][i].chars = <<"data">>
    /\ Ops(1, "close") # {}

\* C7 (as stated): a candidate name with a character outside [a-z0-9-] gets
\* 404, with no access to the routing table and no call of the backend.
C7_Orig_BadNameNoLookup ==
    \A s \in Handlers :
        (pc[s] # "idle" /\ \E k \in 1..Len(Name(s)) : ~InAllowedSet(Name(s)[k])) =>
            /\ ~TableConsulted(s)
            /\ ~BackendInvoked(s)
            /\ pc[s] = "done" => Statuses(s) = <<404>>

\* no failure of the backend so far: variants found, open() gave a handle
BackendFine(s) ==
    /\ \A i \in Ops(s, "streams") : log[s][i].txt \in {"best", "nobest"}
    /\ \A i \in Ops(s, "open") : log[s][i].txt = "ok"

\* C8 (as stated): a name of [a-z0-9-]+ that is a key of the routing table,
\* with a URL and a backend that resolves and opens, is answered by the relay
\* with 200 and a chunked video/MP2T body, never by the health check or an
\* error status.
C8_Orig_RouteServed ==
    \A s \in Handlers :
        (/\ pc[s] = "done"
         /\ MatchesSyntax(Name(s))
         /\ Name(s) \in DOMAIN streams_config
         /\ ~Falsy(RouteUrl(streams_config[Name(s)]))
         /\ BackendFine(s)) =>
            /\ Statuses(s) = <<200>>
            /\ \E i \in Idx(s) : Committed(s, i)
            /\ Ops(s, "health_body") = {}

\* C9 (amended): a candidate name of [a-z0-9-]+ other than "health" that is
\* not a key of the routing table gets 404 and the backend is never called.
C9_UnknownNameIs404 ==
    \A s \in Handlers :
        (/\ pc[s] # "idle"
         /\ MatchesSyntax(Name(s))
         /\ Name(s) # health
         /\ Name(s) \notin DOMAIN streams_config) =>
            /\ ~BackendInvoked(s)
            /\ pc[s] \in {"serve_stream", "done"}
            /\ pc[s] = "done" => Statuses(s) = <<404>>

\* C9 witness: GET /z-1, not a route, answered 404
C9_Witness ==
    /\ pc[1] = "done"
    /\ path[1] = <<"/", "z", "-", "1">>
    /\ Statuses(1) = <<404>>
    /\ ~BackendInvoked(1)

\* C9 (as stated): every candidate name of [a-z0-9-]+ that is not a key of
\* the routing table gets 404 and the backend is never called.
C9_Orig_UnknownNameIs404 ==
    \A s \in Handlers :
        (/\ pc[s] = "done"
         /\ MatchesSyntax(Name(s))
         /\ Name(s) \notin DOMAIN streams_config) =>
            /\ ~BackendInvoked(s)
            /\ Statuses(s) = <<404>>

\* the keys of a route descriptor that override an option
Overrides(n) ==
    IF streams_config[n].isdict
    THEN DOMAIN streams_config[n].dict \cap
            {"user_agent", "threads", "timeout", "buffer_size"}
    ELSE {}

\* C10 (as stated): an option that the matched route overrides is applied
\* with the route's value, to the session and to the read size.
C10_Orig_RouteOverrides ==
    \A s \in Handlers :
        Ops(s, "Streamlink") # {} =>
            LET n == stream_name[s]
            IN  /\ \A k \in Overrides(n) \ {"buffer_size"} :
                      session_opts[s][k] = streams_config[n].dict[k]
                /\ (Opened(s) /\ "buffer_size" \in Overrides(n)) =>
                      buffer_size[s] = streams_config[n].dict["buffer_size"]

\* the process has ended: the signal stopped every thread that was not done
ProcessEnded == \E s \in Handlers : pc[s] = "killed"

\* C11 (as stated): when the process ends on SIGINT or SIGTERM, the handle of
\* every session that was in flight has been closed.
C11_Orig_ShutdownReleases ==
    ProcessEnded => \A s \in Handlers : Opened(s) => stream_fd[s] = "closed"

\* the state of handler s
Local(s) ==
    <<pc[s], path[s], stream_name[s], url[s], session_opts[s], buffer_size[s],
      stream_fd[s], data[s], upos[s], nreads[s], exc[s], escaped[s], log[s]>>

\* the response of handler s ended with the terminal chunk
EndsWithTerminal(s) ==
    /\ Ops(s, "chunk") # {}
    /\ \A i \in Ops(s, "chunk") :
          log[s][i].arg = 0 <=> \A j \in Ops(s, "chunk") : j <= i

\* handler s went through its session without a failure of the backend or
\* of a write
CleanRun(s) ==
    /\ Opened(s)
    /\ Ops(s, "write_fail") = {}
    /\ \A i \in Ops(s, "read") : log[s][i].arg >= 0

\* C12: two connections are independent sessions.  A step of one handler
\* changes nothing of the other; a handler that is not done can always take
\* its next step, wherever the other one stands; and with the thread of
\* handler 1 blocked for ever at any point, handler 2, scheduled fairly,
\* finishes, with the terminal chunk written and its handle closed when
\* nothing failed.
C12_IndependentSessions ==
    /\ [][\A s \in Handlers : Local(s)' # Local(s) =>
              \A t \in Handlers \ {s} : Local(t)' = Local(t)]_vars
    /\ [](pc[2] # "done" => ENABLED ConcStep(2))
    /\ <>(pc[2] = "done")
    /\ []((pc[2] = "done" /\ CleanRun(2)) =>
              EndsWithTerminal(2) /\ stream_fd[2] = "closed")

\* C12 witness: handler 1 still waits in the read() of route foo while
\* handler 2 has served route bar to the end
C12_Witness ==
    /\ pc[1] = "read"
    /\ path[1] = <<"/">> \o foo
    /\ path[2] = <<"/">> \o bar
    /\ pc[2] = "done"
    /\ CleanRun(2)
    /\ EndsWithTerminal(2)
    /\ stream_fd[2] = "closed"

\* the terminal (zero-length) chunk
TerminalChunk(s, i) == log[s][i].op = "chunk" /\ log[s][i].arg = 0

\* the pump loop of handler s ended by a failed write or a read that raised
LoopFailed(s) ==
    \/ \E i \in Ops(s, "write_fail") : log[s][i].chars # <<"headers">>
    \/ \E i \in Ops(s, "read") : log[s][i].arg < 0

\* C13: the zero-length chunk is written at most once, directly after the
\* read that returned no bytes, and nothing is written after it; a non-empty
\* read never gives an empty chunk; the terminal chunk is not written when
\* the loop ended by a disconnect or an error; and once the upstream has
\* returned an empty read the handler finishes, with the terminal chunk
\* written when no write failed.
C13_TerminalChunk ==
    /\ [](\A s \in Handlers :
            /\ Cardinality({i \in Idx(s) : TerminalChunk(s, i)}) <= 1
            /\ \A i \in Idx(s) : TerminalChunk(s, i) =>
                  /\ i > 1
                  /\ log[s][i - 1].op = "read"
                  /\ log[s][i - 1].arg = 0
                  /\ \A j \in Idx(s) : j > i => log[s][j].op = "close"
            /\ \A i \in Ops(s, "read") :
                  (log[s][i].arg > 0 /\ i < Len(log[s])) =>
                      /\ log[s][i + 1].op \in {"chunk", "write_fail"}
                      /\ log[s][i + 1].arg >= 1
            /\ LoopFailed(s) => \A i \in Idx(s) : ~TerminalChunk(s, i)
            /\ (pc[s] = "done" /\ Ops(s, "write_fail") = {}
                  /\ \E i \in Ops(s, "read") : log[s][i].arg = 0) =>
                  EndsWithTerminal(s) /\ stream_fd[s] = "closed")
    /\ ((\E i \in Ops(1, "read") : log[1][i].arg = 0) ~> pc[1] = "done")

\* C13 witness: two data chunks, the empty read, the terminal chunk, done
C13_Witness ==
    /\ pc[1] = "done"
    /\ CleanRun(1)
    /\ Cardinality({i \in Idx(1) : DataChunk(1, i)}) = 2
    /\ TerminalChunk(1, Len(log[1]) - 1)
    /\ log[1][Len(log[1])].op = "close"

\* the descriptor of route n has no URL: an empty string, or a mapping
\* without a url or with an empty one
EmptyUrlRoute(n) ==
    LET r == streams_config[n]
    IN  IF r.isdict
        THEN "url" \notin DOMAIN r.dict \/ r.dict["url"] = ""
        ELSE r.str = ""

\* C14: a request served by serve_stream for a configured route without a
\* URL is answered with 500 and a message that names the stream, and the
\* backend is never called for it.
C14_NoUrlIs500 ==
    \A s \in Handlers :
        (/\ pc[s] \notin {"idle", "serve_health_check"}
         /\ stream_name[s] \in DOMAIN streams_config
         /\ EmptyUrlRoute(stream_name[s])) =>
            /\ ~BackendInvoked(s)
            /\ pc[s] \in {"serve_stream", "done"}
            /\ pc[s] = "done" =>
                  /\ Statuses(s) = <<500>>
                  /\ \E i \in Ops(s, "status") :
                        /\ log[s][i].txt = "No URL configured for stream"
                        /\ log[s][i].chars = stream_name[s]

\* C14 witness: GET /url1, a mapping without url, answered 500
C14_Witness ==
    /\ pc[1] = "done"
    /\ stream_name[1] = nokey
    /\ nokey \in DOMAIN streams_config
    /\ Statuses(1) = <<500>>
    /\ ~BackendInvoked(1)

\* C15: a failure of session.streams() gives exactly one status, 404 for no
\* variant, 502 for NoPluginError, 503 for NoStreamsError, 500 for
\* StreamError and for any other exception; no handle is opened and no 200
\* is sent.
C15_EnumerationFailure ==
    \A s \in Handlers : \A i \in Ops(s, "streams") :
        log[s][i].txt \notin {"best", "nobest"} =>
            /\ Ops(s, "open") = {}
            /\ stream_fd[s] = "none"
            /\ \A j \in Ops(s, "status") : log[s][j].arg # 200
            /\ \A j \in Idx(s) : ~Committed(s, j)
            /\ pc[s] \in {"except_outer", "done"}
            /\ pc[s] = "done" =>
                  Statuses(s) =
                      << CASE log[s][i].txt = "empty" -> 404
                           [] log[s][i].txt = "NoPluginError" -> 502
                           [] log[s][i].txt = "NoStreamsError" -> 503
                           [] log[s][i].txt = "StreamError" -> 500
                           [] log[s][i].txt = "Exception" -> 500 >>

\* C15 witness: streams() raised NoStreamsError and the answer was 503
C15_Witness ==
    /\ pc[1] = "done"
    /\ \E i \in Ops(1, "streams") : log[1][i].txt = "NoStreamsError"
    /\ Statuses(1) = <<503>>
    /\ stream_fd[1] = "none"

\* C16: a request whose stripped path is empty or "health" is answered with
\* 200 and a body that reports as many streams as the routing table has
\* entries, without a call of the backend, whatever the backend would do.
C16_HealthCheck ==
    \A s \in Handlers :
        (pc[s] # "idle" /\ Name(s) \in {<<>>, health}) =>
            /\ ~BackendInvoked(s)
            /\ pc[s] \in {"serve_health_check", "done"}
            /\ pc[s] = "done" =>
                  /\ Statuses(s) = <<200>>
                  /\ Ops(s, "error_body") = {}
                  /\ \E i \in Ops(s, "health_body") :
                        log[s][i].arg = Cardinality(DOMAIN streams_config)

\* C16 witness: GET /health/ with the four routes of the first
\* configuration
C16_Witness ==
    /\ pc[1] = "done"
    /\ path[1] = <<"/">> \o health \o <<"/">>
    /\ Statuses(1) = <<200>>
    /\ \E i \in Ops(1, "health_body") : log[1][i].arg = 4

\* the value of one character of a size line
HexDigitValue(c) ==
    CASE c = "0" -> 0 [] c = "1" -> 1 [] c = "2" -> 2 [] c = "3" -> 3
      [] c = "4" -> 4 [] c = "5" -> 5 [] c = "6" -> 6 [] c = "7" -> 7
      [] c = "8" -> 8 [] c = "9" -> 9 [] c = "a" -> 10 [] c = "b" -> 11
      [] c = "c" -> 12 [] c = "d" -> 13 [] c = "e" -> 14 [] c = "f" -> 15

RECURSIVE HexValue(_)
\* the number a client reads from a size line
HexValue(cs) ==
    IF cs = <<>> THEN 0
    ELSE 16 * HexValue(SubSeq(cs, 1, Len(cs) - 1)) + HexDigitValue(cs[Len(cs)])

ReadCount(s) == Cardinality(Ops(s, "read"))

\* C18: in one session reads and writes alternate and keep their order.  A
\* read is issued only after the chunk of the read before it is written (the
\* first one after open()); the chunks are prefixes of the successive reads,
\* in the order of the reads; while a write is pending the session issues no
\* read, and the other session can still read.
C18_ReadWriteAlternate ==
    /\ [](\A s \in Handlers :
            /\ \A i \in Ops(s, "read") :
                  /\ i > 1
                  /\ \/ /\ log[s][i - 1].op = "open"
                        /\ \A j \in Ops(s, "read") : j >= i
                     \/ /\ DataChunk(s, i - 1)
                        /\ log[s][i - 2].op = "read"
                        /\ log[s][i - 2].off = log[s][i - 1].off
                        /\ log[s][i].off = log[s][i - 2].off + log[s][i - 2].arg
            /\ \A i \in Idx(s) : \A j \in Idx(s) :
                  (i < j /\ DataChunk(s, i) /\ DataChunk(s, j)) =>
                      log[s][i].off + log[s][i].arg <= log[s][j].off
            /\ pc[s] = "write" =>
                  /\ log[s][Len(log[s])].op = "read"
                  /\ ~ENABLED (\E r \in ConcLens : fd_read(s, r, "none"))
                  /\ ~ENABLED fd_read(s, 0, "StreamError"))
    /\ []((pc[1] = "write" /\ pc[2] = "read") =>
              ENABLED (\E r \in ConcLens : fd_read(2, r, "none")))
    /\ [][\A s \in Handlers :
              Len(log'[s]) > Len(log[s]) /\ log'[s][Len(log'[s])].op = "read"
                  => pc[s] = "read"]_vars

\* C18 witness: handler 1 waits in the write of its first chunk; handler 2
\* has written a chunk since and is in its second read
C18_Witness ==
    /\ pc[1] = "write"
    /\ ReadCount(1) = 1
    /\ pc[2] = "read"
    /\ ReadCount(2) = 1
    /\ \E i \in Idx(2) : DataChunk(2, i)

\* a step of the relay path of handler s failed
Failure(s, i) ==
    \/ log[s][i].op = "streams" /\ log[s][i].txt \notin {"best", "nobest"}
    \/ log[s][i].op = "open" /\ log[s][i].txt # "ok"
    \/ log[s][i].op = "read" /\ log[s][i].arg < 0
    \/ log[s][i].op = "write_fail"

\* C19: nothing is retried.  A request creates at most one session,
\* enumerates the variants at most once and opens at most once; after the
\* first failed enumeration, open, read or write it enumerates, opens, reads
\* and writes chunks no more, and it ends.
C19_NoRetry ==
    \A s \in Handlers :
        /\ Cardinality(Ops(s, "Streamlink")) <= 1
        /\ Cardinality(Ops(s, "streams")) <= 1
        /\ Cardinality(Ops(s, "open")) <= 1
        /\ \A i \in Idx(s) : Failure(s, i) =>
              /\ \A j \in Idx(s) :
                    j > i => log[s][j].op \notin
                                {"Streamlink", "streams", "open", "read", "chunk",
                                 "write_fail"}
              /\ pc[s] \in {"close", "except_outer", "done"}

\* C19 witness: the second read raised; the handler closed, answered and
\* ended
C19_Witness ==
    /\ pc[1] = "done"
    /\ ReadCount(1) = 2
    /\ \E i \in Ops(1, "read") :
          /\ Failure(1, i)
          /\ i < Len(log[1])
          /\ log[1][i + 1].op = "close"

====
